---------------------------- MODULE Spec2Model ----------------------------
(***************************************************************************)
(* A model of feishu_sdk: the message client of api.py (token exchange,    *)
(* send, update) and the webhook dispatcher of webhook.py / event.py.      *)
(*                                                                         *)
(* JSON objects (Python dicts) are functions whose domain is the set of    *)
(* keys present; Python's None is the value None.                          *)
(***************************************************************************)
EXTENDS Integers, Sequences, FiniteSets, TLC

VARIABLES
    \* ---- api.py: MessageApiClient ----
    lark_host,              \* self._lark_host
    app_id,                 \* self._app_id
    app_secret,             \* self._app_secret
    tenant_access_token,    \* self._tenant_access_token
    pc,                     \* per caller: where its current operation stands
    op,                     \* per caller: the operation it called, with its arguments
    calls,                  \* per caller: the outbound HTTP calls of its current operation
    tokenResp,              \* per caller: the response its token call received
    messageResp,            \* per caller: the response its message call received
    result,                 \* per caller: what the operation gave the caller
    \* ---- api.py: AsyncMessageApiClient ----
    async_token,            \* self._tenant_access_token
    client,                 \* self._client: the shared connection, or NoConn
    conns,                  \* the httpx.AsyncClient objects created so far, in order
    scopes,                 \* the "async with client" blocks entered and not yet left
    exited,                 \* the "async with client" blocks left, in order
    async_pc,               \* where the task's current operation stands
    async_op,               \* the operation it called, with its arguments
    async_calls,            \* the outbound HTTP calls of its current operation
    async_via,              \* the connection each of these calls was made on
    async_tokenResp,        \* the response its token call received
    async_messageResp,      \* the response its message call received
    async_result,           \* what the operation gave the caller
    \* ---- api.py: from_env ----
    environ,                \* os.environ: the variables that are set, with their values
    built,                  \* the last from_env call: its arguments and its outcome
    \* ---- webhook.py: WebhookHandler ----
    message_handlers,       \* self.message_handlers: message type -> handler
    event_handlers,         \* self.event_handlers: event type -> handler
    registrations,          \* the registration calls made so far, in order
    request,                \* per request: request.json
    http,                   \* per request: where _webhook_handler stands
    response,               \* per request: the HTTP response sent
    unit,                   \* per request: the background thread started for it
    invocations             \* per request: the handler calls made for it, in order

apiVars == <<lark_host, app_id, app_secret, tenant_access_token, pc, op, calls,
             tokenResp, messageResp, result>>

hookVars == <<message_handlers, event_handlers, registrations, request, http,
              response, unit, invocations>>

asyncVars == <<async_token, client, conns, scopes, exited, async_pc, async_op,
               async_calls, async_via, async_tokenResp, async_messageResp, async_result>>

envVars == <<environ, built>>

vars == <<apiVars, hookVars, asyncVars, envVars>>

-----------------------------------------------------------------------------
(* Python values *)

None == "None"

EmptyDict == <<>>

\* dict.get(key, default)
Get(d, k, default) == IF k \in DOMAIN d THEN d[k] ELSE default

\* an optional entry: opt is <<>> (key absent) or <<v>> (key present with value v)
Entry(k, opt) == IF opt = <<>> THEN EmptyDict ELSE k :> opt[1]

-----------------------------------------------------------------------------
(* api.py *)

TENANT_ACCESS_TOKEN_URI == "/open-apis/auth/v3/tenant_access_token/internal"

MESSAGE_URI == "/open-apis/im/v1/messages"

\* the threads that call into one client
Callers == {"caller1", "caller2"}

Credentials == {[app_id |-> "cli_a", app_secret |-> "secret_a"],
                [app_id |-> "cli_b", app_secret |-> "secret_b"]}

\* HTTP statuses a server may answer with: 200, a success status other than 200, and
\* a client and a server error status
Statuses == {200, 201, 404, 500}

\* bodies of the token endpoint: an API error (code absent or non-zero, with or
\* without msg) or code 0 with or without the token
TokenBodies ==
    {Entry("code", c) @@ Entry("msg", m) :
        c \in {<<>>, <<99991>>, <<10001>>}, m \in {<<>>, <<"invalid app_id">>}}
    \cup {[code |-> 0] @@ Entry("tenant_access_token", t) : t \in {<<>>, <<"t1">>, <<"t2">>}}

\* bodies of the message endpoint: an API error, or code 0 with or without
\* data.message_id
MessageBodies ==
    {Entry("code", c) @@ Entry("msg", m) :
        c \in {<<>>, <<99991>>}, m \in {<<>>, <<"invalid receive_id">>}}
    \cup {[code |-> 0] @@ Entry("data", d) :
            d \in {<<>>, <<EmptyDict>>, <<[message_id |-> "om_1"]>>,
                   <<[message_id |-> "om_2"]>>}}

\* a response: status, whether the body parses as JSON, the parsed body
Responses(bodies) ==
    {[status |-> s, json |-> TRUE, body |-> b] : s \in Statuses, b \in bodies}
    \cup {[status |-> s, json |-> FALSE, body |-> EmptyDict] : s \in Statuses}

NoResp == [status |-> 0, json |-> FALSE, body |-> EmptyDict]

\* what an operation gives its caller: a returned value or a raised exception
Returned(v) == [kind |-> "return", value |-> v, code |-> 0, msg |-> None]

Raised(kind) == [kind |-> kind, value |-> None, code |-> 0, msg |-> None]

LarkException(code, msg) == [kind |-> "LarkException", value |-> None, code |-> code, msg |-> msg]

NoResult == [kind |-> "none", value |-> None, code |-> 0, msg |-> None]

\* requests' Response.raise_for_status: raises HTTPError for 4xx and 5xx only
raise_for_status(status) == 400 <= status /\ status < 600

\* a _check_error_response that raises LarkException(code=code) and drops the msg
check_error_response_drops_msg(resp) ==
    IF resp.status # 200 /\ raise_for_status(resp.status) THEN Raised("HTTPError")
    ELSE IF ~resp.json THEN Raised("JSONDecodeError")
    ELSE LET code == Get(resp.body, "code", -1)
         IN  IF code # 0 THEN LarkException(code, None) ELSE NoResult

\* MessageApiClient._check_error_response: the exception it raises, or NoResult
check_error_response(resp) ==
    IF resp.status # 200 /\ raise_for_status(resp.status) THEN Raised("HTTPError")
    ELSE IF ~resp.json THEN Raised("JSONDecodeError")
    ELSE LET code == Get(resp.body, "code", -1)
         IN  IF code # 0 THEN LarkException(code, Get(resp.body, "msg", None))
             ELSE NoResult

\* an _authorize_tenant_access_token that checks the response and forgets the assignment
StoredTokenStale(old, resp) == old

\* the value _authorize_tenant_access_token assigns to self._tenant_access_token
StoredToken(old, resp) == Get(resp.body, "tenant_access_token", None)

\* "Bearer " + self.tenant_access_token: a TypeError when the token is None
BearerRaises(token) == token = None

\* resp.json()["data"]["message_id"]: the value, or the KeyError of a missing key
MessageIdRaises(resp) ==
    ~("data" \in DOMAIN resp.body /\ "message_id" \in DOMAIN resp.body["data"])

MessageId(resp) == resp.body["data"]["message_id"]

Operations ==
    {[kind |-> "authorize"]}
    \cup {[kind |-> "send", receive_id_type |-> t, receive_id |-> "ou_123",
           msg_type |-> m, content |-> "hello"] :
            t \in {"open_id", "chat_id"}, m \in {"text", "interactive"}}
    \cup {[kind |-> "update", message_id |-> "om_1", updated_card |-> "card"]}
    \cup {[kind |-> k, open_id |-> "ou_123", content |-> "hello"] :
            k \in {"send_text", "send_card"}}

NoOp == [kind |-> "none"]

\* the send(...) call an operation makes: send itself, or the call a wrapper
\* (send_text_with_open_id, send_card_with_open_id) passes its arguments to
SendArgs(o) ==
    IF o.kind = "send" THEN o
    ELSE [kind |-> "send", receive_id_type |-> "open_id", receive_id |-> o.open_id,
          msg_type |-> IF o.kind = "send_text" THEN "text" ELSE "interactive",
          content |-> o.content]

\* what the operation hands its caller when its send(...) returned v:
\* send_text_with_open_id calls send without returning its value
SyncReturn(o, v) == IF o.kind = "send_text" THEN None ELSE v

TokenCall ==
    [method |-> "POST", host |-> lark_host, uri |-> TENANT_ACCESS_TOKEN_URI, bearer |-> None,
     body |-> [app_id |-> app_id, app_secret |-> app_secret]]

MessageCall(o, token) ==
    IF o.kind # "update"
    THEN [method |-> "POST", host |-> lark_host, uri |-> MESSAGE_URI, bearer |-> token,
          receive_id_type |-> SendArgs(o).receive_id_type,
          body |-> [receive_id |-> SendArgs(o).receive_id, content |-> SendArgs(o).content,
                    msg_type |-> SendArgs(o).msg_type]]
    ELSE [method |-> "PATCH", host |-> lark_host, uri |-> MESSAGE_URI, bearer |-> token,
          message_id |-> o.message_id, body |-> [content |-> o.updated_card]]

Running(c) == pc[c] \in {"token_wait", "authorized", "message_wait"}

\* a client that keeps its token: send and send_update_message_card skip the token
\* call when a token is stored
CallCached(c, o) ==
    /\ ~Running(c)
    /\ op' = [op EXCEPT ![c] = o]
    /\ IF o.kind # "authorize" /\ tenant_access_token \notin {"", None}
       THEN /\ calls' = [calls EXCEPT ![c] = <<>>]
            /\ pc' = [pc EXCEPT ![c] = "authorized"]
       ELSE /\ calls' = [calls EXCEPT ![c] = <<TokenCall>>]
            /\ pc' = [pc EXCEPT ![c] = "token_wait"]
    /\ tokenResp' = [tokenResp EXCEPT ![c] = NoResp]
    /\ messageResp' = [messageResp EXCEPT ![c] = NoResp]
    /\ result' = [result EXCEPT ![c] = NoResult]
    /\ UNCHANGED <<lark_host, app_id, app_secret, tenant_access_token>>
    /\ UNCHANGED <<hookVars, asyncVars, envVars>>

\* a caller calls _authorize_tenant_access_token, send, a wrapper of send or
\* send_update_message_card: each starts with the POST to the token endpoint
Call(c, o) ==
    /\ ~Running(c)
    /\ op' = [op EXCEPT ![c] = o]
    /\ calls' = [calls EXCEPT ![c] = <<TokenCall>>]
    /\ pc' = [pc EXCEPT ![c] = "token_wait"]
    /\ tokenResp' = [tokenResp EXCEPT ![c] = NoResp]
    /\ messageResp' = [messageResp EXCEPT ![c] = NoResp]
    /\ result' = [result EXCEPT ![c] = NoResult]
    /\ UNCHANGED <<lark_host, app_id, app_secret, tenant_access_token>>
    /\ UNCHANGED <<hookVars, asyncVars, envVars>>

\* a client that issues a call again when the connection failed
TransportErrorRetries(c) ==
    /\ pc[c] \in {"token_wait", "message_wait"}
    /\ IF Len(calls[c]) < 4
       THEN /\ calls' = [calls EXCEPT ![c] = Append(@, @[Len(@)])]
            /\ UNCHANGED <<pc, result>>
       ELSE /\ pc' = [pc EXCEPT ![c] = "failed"]
            /\ result' = [result EXCEPT ![c] = Raised("ConnectionError")]
            /\ UNCHANGED calls
    /\ UNCHANGED <<lark_host, app_id, app_secret, tenant_access_token, op, tokenResp, messageResp>>
    /\ UNCHANGED <<hookVars, asyncVars, envVars>>

\* requests.post / requests.patch raises before any response (connection failure)
TransportError(c) ==
    /\ pc[c] \in {"token_wait", "message_wait"}
    /\ pc' = [pc EXCEPT ![c] = "failed"]
    /\ result' = [result EXCEPT ![c] = Raised("ConnectionError")]
    /\ UNCHANGED <<lark_host, app_id, app_secret, tenant_access_token, op, calls, tokenResp,
                   messageResp>>
    /\ UNCHANGED <<hookVars, asyncVars, envVars>>

\* an _authorize_tenant_access_token that resets the stored token before it checks
\* the response
TokenResponseClearsToken(c, resp) ==
    /\ pc[c] = "token_wait"
    /\ tokenResp' = [tokenResp EXCEPT ![c] = resp]
    /\ LET exc == check_error_response(resp)
       IN  IF exc # NoResult
           THEN /\ pc' = [pc EXCEPT ![c] = "failed"]
                /\ result' = [result EXCEPT ![c] = exc]
                /\ tenant_access_token' = ""
           ELSE /\ tenant_access_token' = StoredToken(tenant_access_token, resp)
                /\ IF op[c].kind = "authorize"
                   THEN /\ pc' = [pc EXCEPT ![c] = "done"]
                        /\ result' = [result EXCEPT ![c] = Returned(None)]
                   ELSE /\ pc' = [pc EXCEPT ![c] = "authorized"]
                        /\ UNCHANGED result
    /\ UNCHANGED <<lark_host, app_id, app_secret, op, calls, messageResp>>
    /\ UNCHANGED <<hookVars, asyncVars, envVars>>

\* _authorize_tenant_access_token, from the token endpoint's response on
TokenResponse(c, resp) ==
    /\ pc[c] = "token_wait"
    /\ tokenResp' = [tokenResp EXCEPT ![c] = resp]
    /\ LET exc == check_error_response(resp)
       IN  IF exc # NoResult
           THEN /\ pc' = [pc EXCEPT ![c] = "failed"]
                /\ result' = [result EXCEPT ![c] = exc]
                /\ UNCHANGED tenant_access_token
           ELSE /\ tenant_access_token' = StoredToken(tenant_access_token, resp)
                /\ IF op[c].kind = "authorize"
                   THEN /\ pc' = [pc EXCEPT ![c] = "done"]
                        /\ result' = [result EXCEPT ![c] = Returned(None)]
                   ELSE /\ pc' = [pc EXCEPT ![c] = "authorized"]
                        /\ UNCHANGED result
    /\ UNCHANGED <<lark_host, app_id, app_secret, op, calls, messageResp>>
    /\ UNCHANGED <<hookVars, asyncVars, envVars>>

\* a send / send_update_message_card that builds the headers from the token its own
\* token call returned
MessageRequestOwnToken(c) ==
    /\ pc[c] = "authorized"
    /\ IF BearerRaises(StoredToken("", tokenResp[c]))
       THEN /\ pc' = [pc EXCEPT ![c] = "failed"]
            /\ result' = [result EXCEPT ![c] = Raised("TypeError")]
            /\ UNCHANGED calls
       ELSE /\ calls' = [calls EXCEPT
                           ![c] = Append(@, MessageCall(op[c], StoredToken("", tokenResp[c])))]
            /\ pc' = [pc EXCEPT ![c] = "message_wait"]
            /\ UNCHANGED result
    /\ UNCHANGED <<lark_host, app_id, app_secret, tenant_access_token, op, tokenResp, messageResp>>
    /\ UNCHANGED <<hookVars, asyncVars, envVars>>

\* send / send_update_message_card after the authorization: build the headers from
\* the stored token and issue the message call
MessageRequest(c) ==
    /\ pc[c] = "authorized"
    /\ IF BearerRaises(tenant_access_token)
       THEN /\ pc' = [pc EXCEPT ![c] = "failed"]
            /\ result' = [result EXCEPT ![c] = Raised("TypeError")]
            /\ UNCHANGED calls
       ELSE /\ calls' = [calls EXCEPT
                           ![c] = Append(@, MessageCall(op[c], tenant_access_token))]
            /\ pc' = [pc EXCEPT ![c] = "message_wait"]
            /\ UNCHANGED result
    /\ UNCHANGED <<lark_host, app_id, app_secret, tenant_access_token, op, tokenResp, messageResp>>
    /\ UNCHANGED <<hookVars, asyncVars, envVars>>

\* send / send_update_message_card, from the message endpoint's response on
MessageResponse(c, resp) ==
    /\ pc[c] = "message_wait"
    /\ messageResp' = [messageResp EXCEPT ![c] = resp]
    /\ LET exc == check_error_response(resp)
       IN  IF exc # NoResult
           THEN /\ pc' = [pc EXCEPT ![c] = "failed"]
                /\ result' = [result EXCEPT ![c] = exc]
           ELSE IF op[c].kind = "update"
           THEN /\ pc' = [pc EXCEPT ![c] = "done"]
                /\ result' = [result EXCEPT ![c] = Returned(None)]
           ELSE IF MessageIdRaises(resp)
           THEN /\ pc' = [pc EXCEPT ![c] = "failed"]
                /\ result' = [result EXCEPT ![c] = Raised("KeyError")]
           ELSE /\ pc' = [pc EXCEPT ![c] = "done"]
                /\ result' = [result EXCEPT ![c] = Returned(SyncReturn(op[c], MessageId(resp)))]
    /\ UNCHANGED <<lark_host, app_id, app_secret, tenant_access_token, op, calls, tokenResp>>
    /\ UNCHANGED <<hookVars, asyncVars, envVars>>

-----------------------------------------------------------------------------
(* api.py: AsyncMessageApiClient *)

\* self._client = None
NoConn == 0

MaxConnections == 3

MaxScopeDepth == 2

\* httpx.AsyncClient(): a connection pool, open until aclose()
Connection(owner) == [owner |-> owner, open |-> TRUE]

\* await connection.aclose()
Close(cs, id) == [cs EXCEPT ![id].open = FALSE]

\* httpx's Response.raise_for_status: raises HTTPStatusError unless the status is 2xx
httpx_raise_for_status(status) == ~(200 <= status /\ status < 300)

\* AsyncMessageApiClient._check_error_response: the exception it raises, or NoResult
async_check_error_response(resp) ==
    IF resp.status # 200 /\ httpx_raise_for_status(resp.status) THEN Raised("HTTPStatusError")
    ELSE IF ~resp.json THEN Raised("JSONDecodeError")
    ELSE LET code == Get(resp.body, "code", -1)
         IN  IF code # 0 THEN LarkException(code, Get(resp.body, "msg", None))
             ELSE NoResult

\* what the operation hands its caller when its send(...) returned v: each wrapper
\* returns await self.send(...)
AsyncReturn(o, v) == v

AsyncRunning == async_pc \in {"token_wait", "authorized", "message_wait"}

\* _request up to the await of the response, after the calls "before" made on the
\* connections "via": the call goes out on self._client when there is one, else on a
\* temporary client opened by "async with httpx.AsyncClient()"
Request(before, via, call) ==
    /\ async_calls' = Append(before, call)
    /\ IF client # NoConn
       THEN /\ async_via' = Append(via, client)
            /\ UNCHANGED conns
       ELSE /\ Len(conns) < MaxConnections
            /\ conns' = Append(conns, Connection("request"))
            /\ async_via' = Append(via, Len(conns) + 1)
    /\ UNCHANGED client

\* a _request whose temporary client is closed only when the response arrived
EndRequestLeaksOnError(failed) ==
    LET id == async_via[Len(async_via)]
    IN  IF conns[id].owner = "request" /\ ~failed THEN conns' = Close(conns, id)
        ELSE UNCHANGED conns

\* _request from the response (or the exception) on: leaving "async with" closes the
\* temporary client on every path; a shared client stays as it is
EndRequest(failed) ==
    LET id == async_via[Len(async_via)]
    IN  IF conns[id].owner = "request" THEN conns' = Close(conns, id)
        ELSE UNCHANGED conns

\* async with client: __aenter__ creates a client and stores it on self._client
aenter ==
    /\ ~AsyncRunning
    /\ Len(scopes) < MaxScopeDepth
    /\ Len(conns) < MaxConnections
    /\ conns' = Append(conns, Connection("scope"))
    /\ client' = Len(conns) + 1
    /\ scopes' = Append(scopes, Len(conns) + 1)
    /\ UNCHANGED <<async_token, exited, async_pc, async_op, async_calls, async_via,
                   async_tokenResp, async_messageResp, async_result>>
    /\ UNCHANGED <<apiVars, hookVars, envVars>>

\* the innermost "async with client" block is left, normally (exc_type None) or by an
\* exception raised inside it: __aexit__ closes the client self._client holds
aexit(exc_type) ==
    /\ ~AsyncRunning
    /\ scopes # <<>>
    /\ exc_type # None => async_pc = "failed"
    /\ scopes' = SubSeq(scopes, 1, Len(scopes) - 1)
    /\ exited' = Append(exited, [conn |-> scopes[Len(scopes)], exc_type |-> exc_type])
    /\ IF client # NoConn
       THEN /\ conns' = Close(conns, client)
            /\ client' = NoConn
       ELSE UNCHANGED <<conns, client>>
    /\ UNCHANGED <<async_token, async_pc, async_op, async_calls, async_via,
                   async_tokenResp, async_messageResp, async_result>>
    /\ UNCHANGED <<apiVars, hookVars, envVars>>

\* the task awaits _authorize_tenant_access_token, send, a wrapper or
\* send_update_message_card: each starts with the POST to the token endpoint
AsyncCall(o) ==
    /\ ~AsyncRunning
    /\ async_op' = o
    /\ Request(<<>>, <<>>, TokenCall)
    /\ async_pc' = "token_wait"
    /\ async_tokenResp' = NoResp
    /\ async_messageResp' = NoResp
    /\ async_result' = NoResult
    /\ UNCHANGED <<async_token, scopes, exited>>
    /\ UNCHANGED <<apiVars, hookVars, envVars>>

\* client.request raises before any response (connection failure)
AsyncTransportError ==
    /\ async_pc \in {"token_wait", "message_wait"}
    /\ EndRequest(TRUE)
    /\ async_pc' = "failed"
    /\ async_result' = Raised("ConnectError")
    /\ UNCHANGED <<async_token, client, scopes, exited, async_op, async_calls, async_via,
                   async_tokenResp, async_messageResp>>
    /\ UNCHANGED <<apiVars, hookVars, envVars>>

\* _authorize_tenant_access_token, from the token endpoint's response on
AsyncTokenResponse(resp) ==
    /\ async_pc = "token_wait"
    /\ EndRequest(FALSE)
    /\ async_tokenResp' = resp
    /\ LET exc == async_check_error_response(resp)
       IN  IF exc # NoResult
           THEN /\ async_pc' = "failed"
                /\ async_result' = exc
                /\ UNCHANGED async_token
           ELSE /\ async_token' = StoredToken(async_token, resp)
                /\ IF async_op.kind = "authorize"
                   THEN /\ async_pc' = "done"
                        /\ async_result' = Returned(None)
                   ELSE /\ async_pc' = "authorized"
                        /\ UNCHANGED async_result
    /\ UNCHANGED <<client, scopes, exited, async_op, async_calls, async_via,
                   async_messageResp>>
    /\ UNCHANGED <<apiVars, hookVars, envVars>>

\* send / send_update_message_card after the authorization: build the headers from
\* the stored token and issue the message call
AsyncMessageRequest ==
    /\ async_pc = "authorized"
    /\ IF BearerRaises(async_token)
       THEN /\ async_pc' = "failed"
            /\ async_result' = Raised("TypeError")
            /\ UNCHANGED <<async_calls, async_via, conns, client>>
       ELSE /\ Request(async_calls, async_via, MessageCall(async_op, async_token))
            /\ async_pc' = "message_wait"
            /\ UNCHANGED async_result
    /\ UNCHANGED <<async_token, scopes, exited, async_op, async_tokenResp,
                   async_messageResp>>
    /\ UNCHANGED <<apiVars, hookVars, envVars>>

\* send / send_update_message_card, from the message endpoint's response on
AsyncMessageResponse(resp) ==
    /\ async_pc = "message_wait"
    /\ EndRequest(FALSE)
    /\ async_messageResp' = resp
    /\ LET exc == async_check_error_response(resp)
       IN  IF exc # NoResult
           THEN /\ async_pc' = "failed"
                /\ async_result' = exc
           ELSE IF async_op.kind = "update"
           THEN /\ async_pc' = "done"
                /\ async_result' = Returned(None)
           ELSE IF MessageIdRaises(resp)
           THEN /\ async_pc' = "failed"
                /\ async_result' = Raised("KeyError")
           ELSE /\ async_pc' = "done"
                /\ async_result' = Returned(AsyncReturn(async_op, MessageId(resp)))
    /\ UNCHANGED <<async_token, client, scopes, exited, async_op, async_calls, async_via,
                   async_tokenResp>>
    /\ UNCHANGED <<apiVars, hookVars, envVars>>

-----------------------------------------------------------------------------
(* api.py: from_env *)

\* the build has httpx installed (the "async" extra)
HTTPX_AVAILABLE == TRUE

Classes == {"MessageApiClient", "AsyncMessageApiClient"}

LARK_HOST == "https://open.feishu.cn"

\* the names from_env is called with: its defaults, and custom names
EnvNames == {<<"APP_ID", "APP_SECRET">>, <<"BOT_ID", "BOT_SECRET">>}

EnvValues == {"", "cli_a", "secret_a"}

\* os.getenv(name): the value, or None when the variable is not set
getenv(env, name) == Get(env, name, None)

\* "not x" of a str or None
Not(x) == x \in {None, ""}

\* cls(app_id, app_secret, lark_host): the object __init__ leaves, or the ImportError
\* of an AsyncMessageApiClient without httpx
New(cls, id, secret, host) ==
    IF cls = "AsyncMessageApiClient" /\ ~HTTPX_AVAILABLE
    THEN [kind |-> "ImportError"]
    ELSE [kind |-> "client", cls |-> cls, app_id |-> id, app_secret |-> secret,
          lark_host |-> host, tenant_access_token |-> ""]

\* raise ValueError(f"Environment variables {app_id_env} and {app_secret_env} must be set")
ValueError(app_id_env, app_secret_env) ==
    [kind |-> "ValueError",
     message |-> <<"Environment variables ", app_id_env, " and ", app_secret_env,
                   " must be set">>]

\* a from_env that tests "app_id is None or app_secret is None"
from_env_none_only(cls, env, host, app_id_env, app_secret_env) ==
    IF getenv(env, app_id_env) = None \/ getenv(env, app_secret_env) = None
    THEN ValueError(app_id_env, app_secret_env)
    ELSE New(cls, getenv(env, app_id_env), getenv(env, app_secret_env), host)

\* MessageApiClient.from_env / AsyncMessageApiClient.from_env in the environment env
from_env(cls, env, host, app_id_env, app_secret_env) ==
    IF Not(getenv(env, app_id_env)) \/ Not(getenv(env, app_secret_env))
    THEN ValueError(app_id_env, app_secret_env)
    ELSE New(cls, getenv(env, app_id_env), getenv(env, app_secret_env), host)

NoBuilt == [kind |-> "none"]

\* os.environ[name] = value
setenv(name, value) ==
    /\ environ' = (name :> value) @@ environ
    /\ UNCHANGED built
    /\ UNCHANGED <<apiVars, hookVars, asyncVars>>

\* del os.environ[name]
delenv(name) ==
    /\ name \in DOMAIN environ
    /\ environ' = [n \in DOMAIN environ \ {name} |-> environ[n]]
    /\ UNCHANGED built
    /\ UNCHANGED <<apiVars, hookVars, asyncVars>>

\* cls.from_env(lark_host, app_id_env, app_secret_env)
FromEnv(cls, app_id_env, app_secret_env) ==
    /\ built' = [kind |-> "call", cls |-> cls, env |-> environ, app_id_env |-> app_id_env,
                 app_secret_env |-> app_secret_env,
                 outcome |-> from_env(cls, environ, LARK_HOST, app_id_env, app_secret_env)]
    /\ UNCHANGED environ
    /\ UNCHANGED <<apiVars, hookVars, asyncVars>>

\* the process starts with none of the variables set and no client built from them
EnvInit ==
    /\ environ = EmptyDict
    /\ built = NoBuilt

EnvNext ==
    \/ \E names \in EnvNames, i \in 1..2, value \in EnvValues : setenv(names[i], value)
    \/ \E names \in EnvNames, i \in 1..2 : delenv(names[i])
    \/ \E cls \in Classes, names \in EnvNames : FromEnv(cls, names[1], names[2])

-----------------------------------------------------------------------------
(* event.py, webhook.py *)

\* JSON null / Python None where the value is otherwise an object
Null == [null |-> TRUE]

MaxRequests == 2

MaxRegistrations == 2

Requests == 1..MaxRequests

MESSAGE_EVENT == "im.message.receive_v1"

\* the handler functions of the application: a plain function and a coroutine function
Handlers == {"sync_handler", "async_handler"}

IsCoroutineFunction(h) == h = "async_handler"

\* a dispatcher that calls every handler as a plain function
iscoroutinefunction_never(h) == FALSE

\* asyncio.iscoroutinefunction(handler): whether the unit awaits the call
iscoroutinefunction(h) == IsCoroutineFunction(h)

\* the keys the application registers handlers under
MessageTypes == {"text"}

EventTypes == {"user.created", MESSAGE_EVENT}

\* header objects: with an event_type, or without one
Headers ==
    {[event_type |-> t] : t \in {MESSAGE_EVENT, "user.created", "unknown.event"}}
    \cup {EmptyDict}

\* event objects: a message of a type, or no message at all
Events ==
    {[message |-> [message_type |-> t]] : t \in {"text", "image"}}
    \cup {[data |-> "test"]}

TextMessage == [header |-> [event_type |-> MESSAGE_EVENT],
                event |-> [message |-> [message_type |-> "text"]]]

\* events with an event_type
EventPayloads ==
    {[header |-> [event_type |-> t], event |-> e] :
        t \in {MESSAGE_EVENT, "user.created", "unknown.event"}, e \in Events}

\* request bodies: every combination of header and event absent, null or an object,
\* and URL verifications with or without a challenge, alone or on top of an event
Payloads ==
    {Entry("header", h) @@ Entry("event", e) :
        h \in {<<>>, <<Null>>} \cup {<<x>> : x \in Headers},
        e \in {<<>>, <<Null>>} \cup {<<x>> : x \in Events}}
    \cup {[type |-> "event_callback"] @@ TextMessage}
    \cup {[type |-> "url_verification"] @@ Entry("challenge", c) @@ rest :
            c \in {<<>>, <<"c1">>, <<"c2">>}, rest \in {EmptyDict, TextMessage}}

\* the request bodies in which every URL verification carries its challenge
ChallengePayloads ==
    {p \in Payloads :
        ("type" \in DOMAIN p /\ p["type"] = "url_verification") => "challenge" \in DOMAIN p}

NoRequest == [none |-> TRUE]

NoResponse == [status |-> 0, body |-> EmptyDict]

\* flask.jsonify(body), status
Response(status, body) == [status |-> status, body |-> body]

\* Flask's answer to an exception the view function does not catch
InternalServerError == [status |-> 500, body |-> [error |-> "Internal Server Error"]]

\* no thread: state "none". A thread is "started", then "running" its handler, and
\* ends "finished" (returned), "logged" (an exception was caught and printed) or
\* "died" (an exception left the thread's target)
NoUnit == [state |-> "none", target |-> "none", event_type |-> None, raised |-> None]

\* Thread(target=..., args=...).start()
StartedUnit(target, event_type) ==
    [state |-> "started", target |-> target, event_type |-> event_type, raised |-> None]

\* an Event.__init__ that tests "not header or not event", so that an empty object fails
InvalidEventFalsy(dict_data) ==
    \/ Get(dict_data, "header", Null) \in {Null, EmptyDict}
    \/ Get(dict_data, "event", Null) \in {Null, EmptyDict}

\* an Event.__init__ that tests "header" in dict_data, so that a null passes
InvalidEventAbsentOnly(dict_data) ==
    \/ "header" \notin DOMAIN dict_data
    \/ "event" \notin DOMAIN dict_data

\* Event.__init__ raises InvalidEventException
InvalidEvent(dict_data) ==
    \/ Get(dict_data, "header", Null) = Null
    \/ Get(dict_data, "event", Null) = Null

\* utils.dict_2_obj: the attribute view of a dict; an attribute exists for each key
dict_2_obj(d) == d

hasattr(obj, name) == name \in DOMAIN obj

\* Event(dict_data) of a valid event
Event(dict_data) ==
    [header |-> dict_2_obj(dict_data["header"]), event |-> dict_2_obj(dict_data["event"])]

\* a registration by setdefault: the first handler of a key stays
SetDefault(d, k, v) == d @@ (k :> v)

\* self.message_handlers[message_type] = func, self.event_handlers[event_type] = func
SetItem(d, k, v) == (k :> v) @@ d

\* message_handler(message_type)(func), event_handler(event_type)(func)
Register(registry, key, h) ==
    /\ Len(registrations) < MaxRegistrations
    /\ registrations' = Append(registrations, [registry |-> registry, key |-> key, handler |-> h])
    /\ IF registry = "message"
       THEN /\ message_handlers' = SetItem(message_handlers, key, h)
            /\ UNCHANGED event_handlers
       ELSE /\ event_handlers' = SetItem(event_handlers, key, h)
            /\ UNCHANGED message_handlers
    /\ UNCHANGED <<request, http, response, unit, invocations>>
    /\ UNCHANGED <<apiVars, asyncVars, envVars>>

\* a POST arrives at the endpoint; requests are numbered in the order they arrive
Receive(r, payload) ==
    /\ http[r] = "idle"
    /\ \A q \in Requests : q < r => http[q] # "idle"
    /\ request' = [request EXCEPT ![r] = payload]
    /\ http' = [http EXCEPT ![r] = "received"]
    /\ UNCHANGED <<message_handlers, event_handlers, registrations, response, unit,
                   invocations>>
    /\ UNCHANGED <<apiVars, asyncVars, envVars>>

\* a _webhook_handler that builds the Event before it looks at the type
ClassifyEventFirst(req_data, registry) ==
    IF InvalidEvent(req_data)
    THEN [respond |-> Response(400, [error |-> "Invalid event"]), start |-> NoUnit]
    ELSE IF "type" \in DOMAIN req_data /\ req_data["type"] = "url_verification"
    THEN IF "challenge" \in DOMAIN req_data
         THEN [respond |-> Response(200, [challenge |-> req_data["challenge"]]), start |-> NoUnit]
         ELSE [respond |-> InternalServerError, start |-> NoUnit]
    ELSE IF ~hasattr(Event(req_data).header, "event_type")
    THEN [respond |-> InternalServerError, start |-> NoUnit]
    ELSE LET event_type == Event(req_data).header["event_type"]
         IN  IF event_type = MESSAGE_EVENT
             THEN [respond |-> NoResponse, start |-> StartedUnit("message", None)]
             ELSE IF event_type \in DOMAIN registry
             THEN [respond |-> NoResponse, start |-> StartedUnit("event", event_type)]
             ELSE [respond |-> Response(200, EmptyDict), start |-> NoUnit]

\* a _webhook_handler that looks the event type up in the event registry before it
\* tests for a message event
ClassifyRegisteredFirst(req_data, registry) ==
    IF "type" \in DOMAIN req_data /\ req_data["type"] = "url_verification"
    THEN IF "challenge" \in DOMAIN req_data
         THEN [respond |-> Response(200, [challenge |-> req_data["challenge"]]), start |-> NoUnit]
         ELSE [respond |-> InternalServerError, start |-> NoUnit]
    ELSE IF InvalidEvent(req_data)
    THEN [respond |-> Response(400, [error |-> "Invalid event"]), start |-> NoUnit]
    ELSE IF ~hasattr(Event(req_data).header, "event_type")
    THEN [respond |-> InternalServerError, start |-> NoUnit]
    ELSE LET event_type == Event(req_data).header["event_type"]
         IN  IF event_type \in DOMAIN registry
             THEN [respond |-> NoResponse, start |-> StartedUnit("event", event_type)]
             ELSE IF event_type = MESSAGE_EVENT
             THEN [respond |-> NoResponse, start |-> StartedUnit("message", None)]
             ELSE [respond |-> Response(200, EmptyDict), start |-> NoUnit]

\* what _webhook_handler does with req_data up to its return statement: the response
\* it returns at once, or the thread it starts before it returns jsonify()
Classify(req_data, registry) ==
    IF "type" \in DOMAIN req_data /\ req_data["type"] = "url_verification"
    THEN IF "challenge" \in DOMAIN req_data
         THEN [respond |-> Response(200, [challenge |-> req_data["challenge"]]), start |-> NoUnit]
         ELSE [respond |-> InternalServerError, start |-> NoUnit]
    ELSE IF InvalidEvent(req_data)
    THEN [respond |-> Response(400, [error |-> "Invalid event"]), start |-> NoUnit]
    ELSE IF ~hasattr(Event(req_data).header, "event_type")
    THEN [respond |-> InternalServerError, start |-> NoUnit]
    ELSE LET event_type == Event(req_data).header["event_type"]
         IN  IF event_type = MESSAGE_EVENT
             THEN [respond |-> NoResponse, start |-> StartedUnit("message", None)]
             ELSE IF event_type \in DOMAIN registry
             THEN [respond |-> NoResponse, start |-> StartedUnit("event", event_type)]
             ELSE [respond |-> Response(200, EmptyDict), start |-> NoUnit]

\* _webhook_handler up to thread.start() or, with no thread to start, to its return
Handle(r) ==
    /\ http[r] = "received"
    /\ LET c == Classify(request[r], event_handlers)
       IN  IF c.start = NoUnit
           THEN /\ response' = [response EXCEPT ![r] = c.respond]
                /\ http' = [http EXCEPT ![r] = "responded"]
                /\ UNCHANGED unit
           ELSE /\ unit' = [unit EXCEPT ![r] = c.start]
                /\ http' = [http EXCEPT ![r] = "dispatched"]
                /\ UNCHANGED response
    /\ UNCHANGED <<message_handlers, event_handlers, registrations, request, invocations>>
    /\ UNCHANGED <<apiVars, asyncVars, envVars>>

\* a _webhook_handler that joins the thread before it returns
RespondAfterJoin(r) ==
    /\ http[r] = "dispatched"
    /\ unit[r].state \in {"finished", "logged", "died"}
    /\ response' = [response EXCEPT ![r] = Response(200, EmptyDict)]
    /\ http' = [http EXCEPT ![r] = "responded"]
    /\ UNCHANGED <<message_handlers, event_handlers, registrations, request, unit,
                   invocations>>
    /\ UNCHANGED <<apiVars, asyncVars, envVars>>

\* return jsonify() after thread.start()
Respond(r) ==
    /\ http[r] = "dispatched"
    /\ response' = [response EXCEPT ![r] = Response(200, EmptyDict)]
    /\ http' = [http EXCEPT ![r] = "responded"]
    /\ UNCHANGED <<message_handlers, event_handlers, registrations, request, unit,
                   invocations>>
    /\ UNCHANGED <<apiVars, asyncVars, envVars>>

\* a lookup by self.message_handlers.get(message_type, <the "text" handler>)
LookupWithDefault(u, req_data, messages, events) ==
    IF u.target = "message"
    THEN LET event == Event(req_data)
         IN  IF ~hasattr(event.event, "message") THEN [found |-> FALSE, raised |-> TRUE]
             ELSE IF ~hasattr(event.event["message"], "message_type")
             THEN [found |-> FALSE, raised |-> TRUE]
             ELSE LET message_type == event.event["message"]["message_type"]
                  IN  IF message_type \in DOMAIN messages
                      THEN [found |-> TRUE, raised |-> FALSE, handler |-> messages[message_type]]
                      ELSE IF "text" \in DOMAIN messages
                      THEN [found |-> TRUE, raised |-> FALSE, handler |-> messages["text"]]
                      ELSE [found |-> FALSE, raised |-> FALSE]
    ELSE IF u.event_type \in DOMAIN events
         THEN [found |-> TRUE, raised |-> FALSE, handler |-> events[u.event_type]]
         ELSE [found |-> FALSE, raised |-> TRUE]

\* the handler the background unit looks up: found is FALSE when the lookup finds
\* none or raises (a missing attribute raises AttributeError, a missing key KeyError)
Lookup(u, req_data, messages, events) ==
    IF u.target = "message"
    THEN LET event == Event(req_data)
         IN  IF ~hasattr(event.event, "message") THEN [found |-> FALSE, raised |-> TRUE]
             ELSE IF ~hasattr(event.event["message"], "message_type")
             THEN [found |-> FALSE, raised |-> TRUE]
             ELSE LET message_type == event.event["message"]["message_type"]
                  IN  IF message_type \in DOMAIN messages
                      THEN [found |-> TRUE, raised |-> FALSE, handler |-> messages[message_type]]
                      ELSE [found |-> FALSE, raised |-> FALSE]
    ELSE IF u.event_type \in DOMAIN events
         THEN [found |-> TRUE, raised |-> FALSE, handler |-> events[u.event_type]]
         ELSE [found |-> FALSE, raised |-> TRUE]

\* the exceptions a handler may raise: an Exception, or a BaseException that is no
\* Exception (SystemExit, asyncio.CancelledError)
Exceptions == {"Exception", "BaseException"}

\* no except clause around the handler call
CaughtNever(exc) == FALSE

\* except Exception as e: print(...)
Caught(exc) == exc = "Exception"

\* the unit after exc is raised inside the try block: the except clause prints it and
\* the unit ends, or the exception leaves the thread's target and the thread ends in
\* threading's excepthook
Raise(u, exc) ==
    [u EXCEPT !.state = IF Caught(exc) THEN "logged" ELSE "died", !.raised = exc]

\* a dispatcher that runs its units one after the other: the unit of a request waits
\* until the units of the requests before it have ended
ProcessInOrder(r) ==
    /\ unit[r].state = "started"
    /\ \A q \in Requests : q < r => unit[q].state \notin {"started", "running"}
    /\ LET l == Lookup(unit[r], request[r], message_handlers, event_handlers)
       IN  IF l.found /\ IsCoroutineFunction(l.handler) /\ ~iscoroutinefunction(l.handler)
           THEN /\ unit' = [unit EXCEPT ![r].state = "finished"]
                /\ UNCHANGED invocations
           ELSE IF l.found
           THEN /\ unit' = [unit EXCEPT ![r].state = "running"]
                /\ invocations' = [invocations EXCEPT ![r] = Append(@,
                        [handler |-> l.handler, awaited |-> iscoroutinefunction(l.handler),
                         event |-> Event(request[r])])]
           ELSE /\ unit' = [unit EXCEPT ![r] =
                                IF l.raised THEN Raise(@, "Exception")
                                ELSE [@ EXCEPT !.state = "finished"]]
                /\ UNCHANGED invocations
    /\ UNCHANGED <<message_handlers, event_handlers, registrations, request, http, response>>
    /\ UNCHANGED <<apiVars, asyncVars, envVars>>

\* the thread runs _process_message / _process_event up to the call of the handler
Process(r) ==
    /\ unit[r].state = "started"
    /\ LET l == Lookup(unit[r], request[r], message_handlers, event_handlers)
       IN  IF l.found /\ IsCoroutineFunction(l.handler) /\ ~iscoroutinefunction(l.handler)
           THEN \* handler(event) only creates the coroutine: its body never runs
                /\ unit' = [unit EXCEPT ![r].state = "finished"]
                /\ UNCHANGED invocations
           ELSE IF l.found
           THEN /\ unit' = [unit EXCEPT ![r].state = "running"]
                /\ invocations' = [invocations EXCEPT ![r] = Append(@,
                        [handler |-> l.handler, awaited |-> iscoroutinefunction(l.handler),
                         event |-> Event(request[r])])]
           ELSE /\ unit' = [unit EXCEPT ![r] =
                                IF l.raised THEN Raise(@, "Exception")
                                ELSE [@ EXCEPT !.state = "finished"]]
                /\ UNCHANGED invocations
    /\ UNCHANGED <<message_handlers, event_handlers, registrations, request, http, response>>
    /\ UNCHANGED <<apiVars, asyncVars, envVars>>

\* the handler returns
HandlerReturns(r) ==
    /\ unit[r].state = "running"
    /\ unit' = [unit EXCEPT ![r].state = "finished"]
    /\ UNCHANGED <<message_handlers, event_handlers, registrations, request, http, response,
                   invocations>>
    /\ UNCHANGED <<apiVars, asyncVars, envVars>>

\* the handler raises
HandlerRaises(r, exc) ==
    /\ unit[r].state = "running"
    /\ unit' = [unit EXCEPT ![r] = Raise(@, exc)]
    /\ UNCHANGED <<message_handlers, event_handlers, registrations, request, http, response,
                   invocations>>
    /\ UNCHANGED <<apiVars, asyncVars, envVars>>

HookInit ==
    /\ message_handlers = EmptyDict
    /\ event_handlers = EmptyDict
    /\ registrations = <<>>
    /\ request = [r \in Requests |-> NoRequest]
    /\ http = [r \in Requests |-> "idle"]
    /\ response = [r \in Requests |-> NoResponse]
    /\ unit = [r \in Requests |-> NoUnit]
    /\ invocations = [r \in Requests |-> <<>>]

\* the steps of the dispatcher with request bodies drawn from P
HookNext(P) ==
    \/ \E k \in MessageTypes, h \in Handlers : Register("message", k, h)
    \/ \E k \in EventTypes, h \in Handlers : Register("event", k, h)
    \/ \E r \in Requests, payload \in P : Receive(r, payload)
    \/ \E r \in Requests : Handle(r)
    \/ \E r \in Requests : Respond(r)
    \/ \E r \in Requests : Process(r)
    \/ \E r \in Requests : HandlerReturns(r)
    \/ \E r \in Requests, exc \in Exceptions : HandlerRaises(r, exc)

\* MessageApiClient(app_id, app_secret, lark_host) with credentials of C
ApiInit(C) ==
    /\ \E cr \in C : app_id = cr.app_id /\ app_secret = cr.app_secret
    /\ lark_host = LARK_HOST
    /\ tenant_access_token = ""
    /\ pc = [c \in Callers |-> "idle"]
    /\ op = [c \in Callers |-> NoOp]
    /\ calls = [c \in Callers |-> <<>>]
    /\ tokenResp = [c \in Callers |-> NoResp]
    /\ messageResp = [c \in Callers |-> NoResp]
    /\ result = [c \in Callers |-> NoResult]

\* the steps of the callers in C
ApiNext(C) ==
    \/ \E c \in C, o \in Operations : Call(c, o)
    \/ \E c \in C : TransportError(c)
    \/ \E c \in C, resp \in Responses(TokenBodies) : TokenResponse(c, resp)
    \/ \E c \in C : MessageRequest(c)
    \/ \E c \in C, resp \in Responses(MessageBodies) : MessageResponse(c, resp)

\* AsyncMessageApiClient(app_id, app_secret, lark_host), built with the credentials
\* and the host of the synchronous client
AsyncInit ==
    /\ async_token = ""
    /\ client = NoConn
    /\ conns = <<>>
    /\ scopes = <<>>
    /\ exited = <<>>
    /\ async_pc = "idle"
    /\ async_op = NoOp
    /\ async_calls = <<>>
    /\ async_via = <<>>
    /\ async_tokenResp = NoResp
    /\ async_messageResp = NoResp
    /\ async_result = NoResult

\* the steps of the task that uses the asynchronous client
AsyncNext ==
    \/ aenter
    \/ \E exc_type \in {None, "Exception"} : aexit(exc_type)
    \/ \E o \in Operations : AsyncCall(o)
    \/ AsyncTransportError
    \/ \E resp \in Responses(TokenBodies) : AsyncTokenResponse(resp)
    \/ AsyncMessageRequest
    \/ \E resp \in Responses(MessageBodies) : AsyncMessageResponse(resp)

Init == ApiInit(Credentials) /\ HookInit /\ AsyncInit /\ EnvInit

\* the dispatcher beside one client
HookOnlyInit ==
    /\ ApiInit({[app_id |-> "cli_a", app_secret |-> "secret_a"]})
    /\ HookInit /\ AsyncInit /\ EnvInit

\* one caller: its operations run one after the other on the client
SpecApi == Init /\ [][ApiNext({"caller1"})]_vars

\* the operations that make a message call with a bearer header
ConcurrentOperations == {o \in Operations : o.kind \in {"send", "update"}}

\* the answers of a server that is reached and answers 200 with a JSON body
Answers(bodies) == {resp \in Responses(bodies) : resp.status = 200 /\ resp.json}

\* two callers (threads) each run one send or send_update_message_card on the same
\* client; their statements interleave at the outbound calls
ConcurrentNext ==
    \/ \E c \in Callers, o \in ConcurrentOperations : pc[c] = "idle" /\ Call(c, o)
    \/ \E c \in Callers : TransportError(c)
    \/ \E c \in Callers, resp \in Answers(TokenBodies) : TokenResponse(c, resp)
    \/ \E c \in Callers : MessageRequest(c)
    \/ \E c \in Callers, resp \in Answers(MessageBodies) : MessageResponse(c, resp)

\* two concurrent operations on one client
SpecConcurrent == HookOnlyInit /\ [][ConcurrentNext]_vars

\* the environment and the clients built from it
SpecEnv == HookOnlyInit /\ [][EnvNext]_vars

\* the asynchronous client, used by one task
SpecAsync == HookOnlyInit /\ [][AsyncNext]_vars

Finished(p) == p \in {"idle", "done", "failed"}

\* the asynchronous client has taken every step the synchronous client has taken
CaughtUp(c) == async_op = op[c] /\ async_pc = pc[c]

\* the two clients are given the same operations and the same server behaviour: the
\* synchronous client takes a step, then the asynchronous client takes the same step
\* with the same operation, response or connection failure; a scope is entered and
\* left between operations, and an operation starts while the connections it may
\* need can still be created
PairNext(c) ==
    \/ /\ CaughtUp(c) /\ Finished(pc[c])
       /\ client # NoConn \/ Len(conns) + 2 <= MaxConnections
       /\ \E o \in Operations : Call(c, o)
    \/ CaughtUp(c) /\ TransportError(c)
    \/ CaughtUp(c) /\ \E resp \in Responses(TokenBodies) : TokenResponse(c, resp)
    \/ CaughtUp(c) /\ MessageRequest(c)
    \/ CaughtUp(c) /\ \E resp \in Responses(MessageBodies) : MessageResponse(c, resp)
    \/ CaughtUp(c) /\ Finished(pc[c]) /\ scopes = <<>> /\ aenter
    \/ CaughtUp(c) /\ Finished(pc[c]) /\ \E exc_type \in {None, "Exception"} : aexit(exc_type)
    \/ ~CaughtUp(c) /\ Finished(async_pc) /\ pc[c] # "idle" /\ AsyncCall(op[c])
    \/ /\ ~CaughtUp(c) /\ result[c] = Raised("ConnectionError")
       /\ (async_pc = "token_wait") = (tokenResp[c] = NoResp)
       /\ AsyncTransportError
    \/ ~CaughtUp(c) /\ tokenResp[c] # NoResp /\ AsyncTokenResponse(tokenResp[c])
    \/ ~CaughtUp(c) /\ pc[c] # "authorized" /\ AsyncMessageRequest
    \/ ~CaughtUp(c) /\ messageResp[c] # NoResp /\ AsyncMessageResponse(messageResp[c])

\* the synchronous and the asynchronous client side by side
SpecPair == HookOnlyInit /\ [][PairNext("caller1")]_vars

\* the dispatcher, serving any request body
SpecHook == HookOnlyInit /\ [][HookNext(Payloads)]_vars

\* the dispatcher, serving the request bodies whose URL verifications are complete
SpecHookChallenge == HookOnlyInit /\ [][HookNext(ChallengePayloads)]_vars

\* Flask runs the view function of a request it received to its return
HttpFairness == \A r \in Requests : WF_vars(Handle(r)) /\ WF_vars(Respond(r))

\* a started thread is scheduled until it calls the handler or ends without one
UnitFairness == \A r \in Requests : WF_vars(Process(r))

\* the dispatcher serving events; the request path is fair, the background units and
\* their handlers need never take a step
SpecHookHttpFair == HookOnlyInit /\ [][HookNext(EventPayloads)]_vars /\ HttpFairness

\* the dispatcher serving events; the request path and the background units are
\* fair, a handler need never return
SpecHookFair ==
    HookOnlyInit /\ [][HookNext(EventPayloads)]_vars /\ HttpFairness /\ UnitFairness

-----------------------------------------------------------------------------
(* Properties of the webhook dispatcher *)

Arrived(r) == http[r] # "idle"

IsUrlVerification(p) == "type" \in DOMAIN p /\ p["type"] = "url_verification"

\* header or event is absent or null
MissingHeaderOrEvent(p) ==
    \/ "header" \notin DOMAIN p
    \/ "event" \notin DOMAIN p
    \/ p["header"] = Null
    \/ p["event"] = Null

NothingDispatched(r) == unit[r] = NoUnit /\ invocations[r] = <<>>

C5_MissingHeaderOrEventIs400 ==
    \A r \in Requests :
        (Arrived(r) /\ MissingHeaderOrEvent(request[r])) =>
            /\ NothingDispatched(r)
            /\ http[r] = "responded" =>
                    response[r] = Response(400, [error |-> "Invalid event"])

\* C5 amended: every request whose payload is not a URL verification and misses
\* header or event (absent or null) is answered 400 {"error": "Invalid event"}, with
\* no unit started and no handler invoked.
C5_InvalidEventIs400 ==
    \A r \in Requests :
        (Arrived(r) /\ ~IsUrlVerification(request[r]) /\ MissingHeaderOrEvent(request[r])) =>
            /\ NothingDispatched(r)
            /\ http[r] # "dispatched"
            /\ http[r] = "responded" =>
                    response[r] = Response(400, [error |-> "Invalid event"])

\* a payload with a null header and one with an absent event were answered 400
C5_Witness ==
    \E r, q \in Requests :
        /\ "header" \in DOMAIN request[r] /\ request[r]["header"] = Null
        /\ "event" \in DOMAIN request[r] /\ request[r]["event"] # Null
        /\ response[r].status = 400
        /\ "header" \in DOMAIN request[q] /\ "event" \notin DOMAIN request[q]
        /\ response[q].status = 400

\* a valid event: not a URL verification, header and event objects, an event_type
IsEvent(p) ==
    /\ ~IsUrlVerification(p)
    /\ ~MissingHeaderOrEvent(p)
    /\ "event_type" \in DOMAIN p["header"]

IsMessageEvent(p) == IsEvent(p) /\ p["header"]["event_type"] = MESSAGE_EVENT

HasMessageType(p) ==
    "message" \in DOMAIN p["event"] /\ "message_type" \in DOMAIN p["event"]["message"]

\* a handler is registered for the event's type
HandlerRegisteredFor(p) ==
    IF p["header"]["event_type"] = MESSAGE_EVENT
    THEN HasMessageType(p) /\ p["event"]["message"]["message_type"] \in DOMAIN message_handlers
    ELSE p["header"]["event_type"] \in DOMAIN event_handlers

\* C7: as long as no handler is registered for the type of a request's event (its
\* message_type for a message event, its event_type otherwise), no handler has been
\* invoked for the request, and its response, once sent, is 200 with an empty body.
C7_NoHandlerNoInvocation ==
    \A r \in Requests :
        (Arrived(r) /\ IsEvent(request[r]) /\ ~HandlerRegisteredFor(request[r])) =>
            /\ invocations[r] = <<>>
            /\ http[r] = "responded" => response[r] = Response(200, EmptyDict)

\* an image message was processed to its end with only a text handler registered,
\* and an unregistered event was answered
C7_Witness ==
    \E r, q \in Requests :
        /\ IsMessageEvent(request[r]) /\ HasMessageType(request[r])
        /\ request[r]["event"]["message"]["message_type"] = "image"
        /\ "text" \in DOMAIN message_handlers
        /\ unit[r].state = "finished" /\ invocations[r] = <<>>
        /\ response[r] = Response(200, EmptyDict)
        /\ IsEvent(request[q]) /\ request[q]["header"]["event_type"] = "unknown.event"
        /\ response[q] = Response(200, EmptyDict) /\ unit[q] = NoUnit

\* the registrations made under a key of a registry, in order
RegistrationsOf(registry, key) ==
    SelectSeq(registrations, LAMBDA g : g.registry = registry /\ g.key = key)

Registry(registry) == IF registry = "message" THEN message_handlers ELSE event_handlers

\* each key of the registry holds the handler of the last registration under it
LastWriteWins(registry, keys) ==
    \A key \in keys :
        LET regs == RegistrationsOf(registry, key)
        IN  /\ key \in DOMAIN Registry(registry) <=> regs # <<>>
            /\ regs # <<>> => Registry(registry)[key] = regs[Len(regs)].handler

\* the registration key a started unit looks its handler up under
UnitKey(r) ==
    IF unit[r].target = "message"
    THEN [registry |-> "message", key |-> request[r]["event"]["message"]["message_type"]]
    ELSE [registry |-> "event", key |-> unit[r].event_type]

\* a step that invokes a handler invokes the one registered last under the unit's key
InvokesLastRegistered ==
    \A r \in Requests :
        invocations'[r] # invocations[r] =>
            LET regs == RegistrationsOf(UnitKey(r).registry, UnitKey(r).key)
            IN  /\ regs # <<>>
                /\ invocations'[r] = Append(invocations[r], invocations'[r][Len(invocations'[r])])
                /\ invocations'[r][Len(invocations'[r])].handler = regs[Len(regs)].handler

\* C8: after any sequence of registrations, each key of the message registry and of
\* the event registry maps to the handler of the last registration made under that
\* key (a key is present exactly when it was registered), and every handler
\* invocation calls the handler registered last under the event's key.
C8_LastRegistrationWins ==
    /\ [](LastWriteWins("message", MessageTypes) /\ LastWriteWins("event", EventTypes))
    /\ [][InvokesLastRegistered]_vars

\* two different handlers were registered under "text", and a text message arriving
\* afterwards invoked the second alone
C8_Witness ==
    /\ registrations = <<[registry |-> "message", key |-> "text", handler |-> "sync_handler"],
                         [registry |-> "message", key |-> "text", handler |-> "async_handler"]>>
    /\ message_handlers = [text |-> "async_handler"]
    /\ \E r \in Requests :
        /\ Len(invocations[r]) = 1
        /\ invocations[r][1].handler = "async_handler"

IsTextMessage(p) ==
    /\ IsMessageEvent(p) /\ HasMessageType(p)
    /\ p["event"]["message"]["message_type"] = "text"

AnsweredOk(r) == http[r] = "responded" /\ response[r] = Response(200, EmptyDict)

\* the handlers ever registered for text messages
TextHandlers == {RegistrationsOf("message", "text")[i].handler :
                    i \in 1..Len(RegistrationsOf("message", "text"))}

\* C6: a text message event that has arrived while a handler is registered for
\* "text" is eventually answered 200 with its handler invoked once; a text message
\* never has more than one invocation, and its invocation calls a handler registered
\* for "text" (awaited if and only if it is a coroutine function) with an event whose
\* event.message.message_type is "text".
C6_TextHandlerInvokedOnce ==
    \A r \in Requests :
        /\ [](  (http[r] = "received" /\ IsTextMessage(request[r])
                    /\ "text" \in DOMAIN message_handlers)
                => <>(AnsweredOk(r) /\ Len(invocations[r]) = 1))
        /\ [](  (Arrived(r) /\ IsTextMessage(request[r])) =>
                    /\ Len(invocations[r]) <= 1
                    /\ http[r] = "responded" => response[r] = Response(200, EmptyDict)
                    /\ \A i \in 1..Len(invocations[r]) :
                        /\ invocations[r][i].handler \in TextHandlers
                        /\ invocations[r][i].awaited = IsCoroutineFunction(invocations[r][i].handler)
                        /\ invocations[r][i].event["event"]["message"]["message_type"] = "text")

\* a text message was answered 200 and the coroutine handler registered for "text"
\* was invoked once for it
C6_Witness ==
    \E r \in Requests :
        /\ IsTextMessage(request[r])
        /\ AnsweredOk(r)
        /\ Len(invocations[r]) = 1
        /\ invocations[r][1].handler = "async_handler"
        /\ unit[r].state = "finished"

\* C9: the return of the response after thread.start() is enabled whatever the state
\* of the background unit, and with a fair request path alone (units and handlers
\* free never to finish) every received request is eventually answered.
C9_ResponseDoesNotWaitForUnit ==
    /\ [](\A r \in Requests : http[r] = "dispatched" => ENABLED Respond(r))
    /\ \A r \in Requests : (http[r] = "received") ~> (http[r] = "responded")

\* a request was answered while its handler was still running, and another while
\* its unit had not yet run at all
C9_Witness ==
    \E r, q \in Requests :
        /\ AnsweredOk(r) /\ unit[r].state = "running"
        /\ AnsweredOk(q) /\ unit[q].state = "started"

\* a step in which a handler's or a lookup's exception ends a unit
RaiseStep(r) == unit[r].raised = None /\ unit'[r].raised # None

\* C10: an exception raised in a background unit (by a plain or a coroutine handler,
\* on the message or the event path) ends that unit alone: an Exception is caught by
\* the unit's except clause (state "logged"), any other exception ends the thread;
\* the step changes no response, no request path, no other unit and no registry; a
\* response once sent never changes; and whatever the units did, a received request
\* can be handled, a dispatched one answered and a started unit processed.
C10_HandlerExceptionStaysInUnit ==
    /\ [](\A r \in Requests :
            /\ unit[r].raised = "Exception" => unit[r].state = "logged"
            /\ unit[r].raised # None => unit[r].state \in {"logged", "died"}
            /\ http[r] = "received" => ENABLED Handle(r)
            /\ http[r] = "dispatched" => ENABLED Respond(r)
            /\ unit[r].state = "started" => ENABLED Process(r))
    /\ [][\A r \in Requests :
            /\ RaiseStep(r) =>
                /\ UNCHANGED <<response, http, request, message_handlers, event_handlers,
                               invocations>>
                /\ \A q \in Requests \ {r} : unit'[q] = unit[q]
            /\ response[r] # NoResponse => response'[r] = response[r]]_vars

\* the coroutine handler of the first request's event raised and was caught, its 200
\* response stands, and the second request, a text message, was answered and its
\* handler invoked
C10_Witness ==
    /\ unit[1].target = "event" /\ unit[1].raised = "Exception" /\ unit[1].state = "logged"
    /\ invocations[1] # <<>> /\ invocations[1][1].awaited
    /\ AnsweredOk(1)
    /\ IsTextMessage(request[2]) /\ AnsweredOk(2) /\ Len(invocations[2]) = 1
    /\ ~invocations[2][1].awaited
    /\ unit[2].state = "died"

\* _webhook_handler has passed its classification of the request
Classified(r) == http[r] \in {"dispatched", "responded"}

\* C15: for every payload that reaches the construction of Event (every payload that
\* is no URL verification), the construction fails with InvalidEventException, which
\* the endpoint answers with 400, exactly when header or event is absent or null; a
\* payload with both present and non-null, whatever they hold (an empty header, an
\* event without message), is constructed, also by the background unit.
C15_EventConstructedIffHeaderAndEvent ==
    \A r \in Requests :
        /\ (Classified(r) /\ ~IsUrlVerification(request[r])) =>
            (MissingHeaderOrEvent(request[r])
                <=> response[r] = Response(400, [error |-> "Invalid event"]))
        /\ unit[r] # NoUnit => ~MissingHeaderOrEvent(request[r])

\* the empty mapping was refused, and a payload whose header is an empty object and
\* whose event has no message was not
C15_Witness ==
    \E r, q \in Requests :
        /\ request[r] = EmptyDict /\ response[r].status = 400
        /\ request[q] = [header |-> EmptyDict, event |-> [data |-> "test"]]
        /\ Classified(q) /\ response[q].status # 400

\* C19 as stated: every answered request has one of the three responses of the
\* dispatcher: 200 {challenge} for a URL verification, 400 {"error": "Invalid event"}
\* when header or event is missing, 200 with an empty body for every other payload
\* (a header without event_type included); none is answered by an unhandled error.
C19_OnlyTheThreeResponses ==
    \A r \in Requests :
        http[r] = "responded" =>
            /\ response[r] # InternalServerError
            /\ IF IsUrlVerification(request[r])
               THEN response[r].status = 200 /\ DOMAIN response[r].body = {"challenge"}
               ELSE IF MissingHeaderOrEvent(request[r])
               THEN response[r] = Response(400, [error |-> "Invalid event"])
               ELSE response[r] = Response(200, EmptyDict)

\* a step that invokes a handler on the message path calls the handler the message
\* registry holds for the message type, and on the event path the handler the event
\* registry holds for the event's own event_type
InvokesByPath ==
    \A r \in Requests :
        invocations'[r] # invocations[r] =>
            LET h == invocations'[r][Len(invocations'[r])].handler
            IN  IF IsMessageEvent(request[r])
                THEN /\ HasMessageType(request[r])
                     /\ request[r]["event"]["message"]["message_type"] \in DOMAIN message_handlers
                     /\ h = message_handlers[request[r]["event"]["message"]["message_type"]]
                ELSE /\ request[r]["header"]["event_type"] \in DOMAIN event_handlers
                     /\ h = event_handlers[request[r]["header"]["event_type"]]

\* C20: an event of type "im.message.receive_v1" always takes the message path,
\* whatever the event registry holds, and its handler is looked up in the message
\* registry under event.message.message_type; a unit on the event path belongs to an
\* event that is no message event and whose event_type is a key of the event
\* registry, and it invokes the handler registered under that event_type.
C20_MessageEventsTakeTheMessagePath ==
    /\ [](\A r \in Requests :
            /\ unit[r] # NoUnit => IsEvent(request[r])
            /\ (Classified(r) /\ IsMessageEvent(request[r])) => unit[r].target = "message"
            /\ unit[r].target = "message" => IsMessageEvent(request[r])
            /\ unit[r].target = "event" =>
                /\ unit[r].event_type = request[r]["header"]["event_type"]
                /\ unit[r].event_type # MESSAGE_EVENT
                /\ unit[r].event_type \in DOMAIN event_handlers)
    /\ [][InvokesByPath]_vars

\* with the coroutine handler registered in the event registry under
\* "im.message.receive_v1" and the plain handler under "text", a text message invoked
\* the plain handler alone
C20_Witness ==
    /\ MESSAGE_EVENT \in DOMAIN event_handlers
    /\ event_handlers[MESSAGE_EVENT] = "async_handler"
    /\ \E r \in Requests :
        /\ IsTextMessage(request[r])
        /\ unit[r].target = "message"
        /\ Len(invocations[r]) = 1 /\ invocations[r][1].handler = "sync_handler"

-----------------------------------------------------------------------------
(* Properties of the message client *)

\* the token a token response returns
ReturnedToken(resp) == Get(resp.body, "tenant_access_token", None)

\* the response's JSON body carries a non-zero code
CarriesErrorCode(resp) ==
    resp.json /\ "code" \in DOMAIN resp.body /\ resp.body["code"] # 0

FailedWithApiErrorOf(c, resp) ==
    /\ pc[c] = "failed"
    /\ result[c] = LarkException(resp.body["code"], Get(resp.body, "msg", None))

\* C1: a successful send issued exactly two outbound calls, in this order: the POST
\* to the token endpoint with the client's credentials, then the POST to the message
\* endpoint, whose bearer token is the token the token endpoint's response returned.
C1_SendIsTokenCallThenMessageCall ==
    \A c \in Callers :
        (op[c].kind = "send" /\ pc[c] = "done") =>
            /\ Len(calls[c]) = 2
            /\ calls[c][1].method = "POST"
            /\ calls[c][1].uri = TENANT_ACCESS_TOKEN_URI
            /\ calls[c][1].body = [app_id |-> app_id, app_secret |-> app_secret]
            /\ calls[c][2].method = "POST"
            /\ calls[c][2].uri = MESSAGE_URI
            /\ calls[c][2].bearer = ReturnedToken(tokenResp[c])

\* a send succeeded on a client whose token call returned "t2"
C1_Witness ==
    \E c \in Callers :
        /\ op[c].kind = "send" /\ pc[c] = "done"
        /\ ReturnedToken(tokenResp[c]) = "t2"
        /\ result[c].value = "om_1"

\* C2 as stated: whenever an operation (authorize, send, update) received a response
\* whose JSON body carries a non-zero code, whatever the HTTP status, the operation
\* failed with a LarkException of exactly that code and msg.
C2_AnyStatusErrorCodeIsApiError ==
    \A c \in Callers : \A resp \in {tokenResp[c], messageResp[c]} :
        CarriesErrorCode(resp) => FailedWithApiErrorOf(c, resp)

\* C2 amended: whenever an operation (authorize, send, update) received a response
\* with a success HTTP status (2xx) whose JSON body carries a non-zero code, the
\* operation failed with a LarkException of exactly that code and msg (msg None
\* when the body has none).
C2_ErrorCodeIsApiError ==
    \A c \in Callers : \A resp \in {tokenResp[c], messageResp[c]} :
        (CarriesErrorCode(resp) /\ 200 <= resp.status /\ resp.status < 300)
            => FailedWithApiErrorOf(c, resp)

\* the message call of a send, and the token call of an update, were answered with
\* a non-zero code and a msg
C2_Witness ==
    /\ \E c \in Callers :
        /\ op[c].kind = "send"
        /\ CarriesErrorCode(messageResp[c]) /\ messageResp[c].status = 200
        /\ "msg" \in DOMAIN messageResp[c].body
        /\ result[c].kind = "LarkException"

\* C3 as stated: an authorize() that received a response completed normally, with
\* the returned token stored, exactly when the response had HTTP status 200 and body
\* code 0, and failed with an error for every other response.
C3_AuthorizeSucceedsOnlyOn200Code0 ==
    \A c \in Callers :
        (op[c].kind = "authorize" /\ tokenResp[c] # NoResp) =>
            LET resp == tokenResp[c]
                ok == resp.status = 200 /\ resp.json /\ Get(resp.body, "code", -1) = 0
            IN  /\ ok => (pc[c] = "done" /\ tenant_access_token = ReturnedToken(resp))
                /\ ~ok => (pc[c] = "failed" /\ result[c].kind \notin {"none", "return"})

\* the calls of cs made to the endpoint uri
CallsTo(cs, uri) == SelectSeq(cs, LAMBDA call : call.uri = uri)

\* a step of caller c that starts an operation
Starts(c) == pc[c] \in {"idle", "done", "failed"} /\ pc'[c] \notin {"idle", "done", "failed"}

\* C13: every operation starts with the call to the token endpoint, whether or not a
\* token is stored; an operation that succeeded made exactly one token call, its
\* first call, and left on the client the token that call returned; a successful
\* update then made one PATCH to the message's URL with the card as content and
\* returned nothing.
C13_TokenCallOnEveryOperation ==
    /\ [][\A c \in Callers : Starts(c) => (pc'[c] = "token_wait" /\ calls'[c] = <<TokenCall>>)]_vars
    /\ [](\A c \in Callers :
            pc[c] = "done" =>
                /\ calls[c][1] = TokenCall
                /\ Len(CallsTo(calls[c], TENANT_ACCESS_TOKEN_URI)) = 1
                /\ tenant_access_token = ReturnedToken(tokenResp[c])
                /\ op[c].kind = "update" =>
                    /\ Len(calls[c]) = 2
                    /\ calls[c][2].method = "PATCH" /\ calls[c][2].uri = MESSAGE_URI
                    /\ calls[c][2].message_id = op[c].message_id
                    /\ calls[c][2].body = [content |-> op[c].updated_card]
                    /\ calls[c][2].bearer = ReturnedToken(tokenResp[c])
                    /\ result[c] = Returned(None))

\* the token call of an update is in flight on a client that holds the token an
\* earlier operation stored
C13_Witness ==
    \E c \in Callers :
        /\ op[c].kind = "update" /\ pc[c] = "token_wait"
        /\ tenant_access_token = "t1"
        /\ calls[c] = <<TokenCall>>

\* the token call of the caller's operation has failed: no response, an error status,
\* a body that is no JSON, or a code other than 0
TokenCallFailed(c) ==
    /\ op[c] # NoOp /\ pc[c] # "token_wait"
    /\ \/ tokenResp[c] = NoResp
       \/ tokenResp[c].status >= 400
       \/ ~tokenResp[c].json
       \/ Get(tokenResp[c].body, "code", -1) # 0

IsError(res) ==
    res.kind \in {"ConnectionError", "HTTPError", "JSONDecodeError", "LarkException",
                  "TypeError", "KeyError"}

\* C14: no outbound call is repeated: an operation issues at most two calls, at most
\* one to each endpoint; when its token call failed, the operation has failed with an
\* error for its caller and has made no call to the message endpoint; a failed
\* operation issues no further call.
C14_NoRetry ==
    /\ [](\A c \in Callers :
            /\ Len(calls[c]) <= 2
            /\ Len(CallsTo(calls[c], TENANT_ACCESS_TOKEN_URI)) <= 1
            /\ Len(CallsTo(calls[c], MESSAGE_URI)) <= 1
            /\ TokenCallFailed(c) =>
                /\ pc[c] = "failed" /\ IsError(result[c])
                /\ CallsTo(calls[c], MESSAGE_URI) = <<>>
            /\ pc[c] = "failed" => IsError(result[c]))
    /\ [][\A c \in Callers :
            (pc[c] = "failed" /\ pc'[c] = "failed") => calls'[c] = calls[c]]_vars

\* the connection of a send's message call failed: the send has failed with the
\* connection error after its two calls
C14_Witness ==
    \E c \in Callers :
        /\ op[c].kind = "send" /\ pc[c] = "failed"
        /\ result[c] = Raised("ConnectionError")
        /\ tokenResp[c] # NoResp
        /\ Len(calls[c]) = 2

IsWrapper(o) == o.kind \in {"send_text", "send_card"}

\* the message call send("open_id", open_id, msg_type, content) issues
WrapperCall(o, msg_type, call) ==
    /\ call.method = "POST" /\ call.uri = MESSAGE_URI
    /\ call.receive_id_type = "open_id"
    /\ call.body = [receive_id |-> o.open_id, content |-> o.content, msg_type |-> msg_type]

\* a finished wrapper call made the calls of its send and gave the caller the outcome
\* of that send: the message id the message endpoint returned, or an error
BehavesAsSend(o, p, cs, resp, res) ==
    (IsWrapper(o) /\ p \in {"done", "failed"}) =>
        /\ cs[1].uri = TENANT_ACCESS_TOKEN_URI
        /\ Len(cs) <= 2
        /\ Len(cs) = 2 =>
            WrapperCall(o, IF o.kind = "send_text" THEN "text" ELSE "interactive", cs[2])
        /\ p = "done" => (Len(cs) = 2 /\ res = Returned(resp.body["data"]["message_id"]))
        /\ p = "failed" => res.kind \notin {"none", "return"}

\* C17 as stated: send_text_with_open_id(open_id, x) and send_card_with_open_id(open_id,
\* x), of the synchronous and of the asynchronous client, issue the calls of
\* send("open_id", open_id, "text" / "interactive", x) and give the caller the outcome
\* of that send: the returned message id, or the error.
C17_WrappersBehaveAsSend ==
    /\ \A c \in {"caller1"} : BehavesAsSend(op[c], pc[c], calls[c], messageResp[c], result[c])
    /\ BehavesAsSend(async_op, async_pc, async_calls, async_messageResp, async_result)

\* the connections created by "async with client" whose block has been left
ExitedConnections == {exited[i].conn : i \in 1..Len(exited)}

\* C12 as stated: after any sequence of scope entries and exits of the asynchronous
\* client (normal, by an error, nested, repeated), no connection acquired by an entry
\* is open once its scope has exited, and with no scope active the client holds no
\* connection and no connection acquired by an entry is open.
C12_ScopedConnectionsReleased ==
    /\ \A id \in ExitedConnections : ~conns[id].open
    /\ scopes = <<>> =>
        /\ client = NoConn
        /\ \A id \in 1..Len(conns) : conns[id].owner = "scope" => ~conns[id].open

InFlight(id) ==
    async_pc \in {"token_wait", "message_wait"} /\ id = async_via[Len(async_via)]

\* a step that issues an outbound request makes it on the shared connection when the
\* client holds one, and otherwise on a connection created for it, which is not
\* stored on the client
RequestStep ==
    async_via' # async_via /\ async_via' # <<>> =>
        LET id == async_via'[Len(async_via')]
        IN  /\ client' = client
            /\ IF client # NoConn
               THEN id = client /\ conns' = conns
               ELSE /\ id = Len(conns) + 1
                    /\ conns' = Append(conns, Connection("request"))

\* C18: every outbound request of the asynchronous client goes out on the shared
\* connection when one is active and otherwise on a one-shot connection; a one-shot
\* connection is open only while its request is in flight (it is closed when the
\* request ends, by a response or by a failure), a shared connection is not closed
\* by a request, the client never stores a one-shot connection, and with no scope
\* active the client holds no connection.
C18_OneShotConnectionPerRequest ==
    /\ [](\A id \in 1..Len(conns) :
            /\ (conns[id].owner = "request" /\ conns[id].open) => InFlight(id)
            /\ InFlight(id) => conns[id].open)
    /\ [](client # NoConn => conns[client].owner = "scope")
    /\ [](scopes = <<>> => client = NoConn)
    /\ [][RequestStep]_vars

\* outside any scope a send failed at its message call by a connection failure: its
\* two requests went out on two one-shot connections, both closed again; before it a
\* scope had been entered and left
C18_Witness ==
    /\ scopes = <<>> /\ client = NoConn
    /\ async_pc = "failed" /\ async_result = Raised("ConnectError")
    /\ Len(async_via) = 2 /\ async_via[1] # async_via[2]
    /\ \A i \in 1..2 : conns[async_via[i]] = [owner |-> "request", open |-> FALSE]
    /\ conns[1] = [owner |-> "scope", open |-> FALSE]

\* the ValueError of from_env names the two variables it was called with
NamesVariables(b) ==
    /\ b.outcome.kind = "ValueError"
    /\ \E i \in 1..Len(b.outcome.message) : b.outcome.message[i] = b.app_id_env
    /\ \E i \in 1..Len(b.outcome.message) : b.outcome.message[i] = b.app_secret_env

\* from_env built a client of the class from exactly the values of the two variables
BuiltFromVariables(b) ==
    /\ b.outcome.kind = "client" /\ b.outcome.cls = b.cls
    /\ b.outcome.app_id = b.env[b.app_id_env]
    /\ b.outcome.app_secret = b.env[b.app_secret_env]

\* C16 as stated: from_env, of either client, fails with the error naming the
\* variables when the app-id variable or the app-secret variable is not set, and
\* otherwise builds a client whose app id and app secret are the variables' values.
C16_FromEnvFailsIffVariableMissing ==
    built # NoBuilt =>
        IF built.app_id_env \notin DOMAIN built.env \/ built.app_secret_env \notin DOMAIN built.env
        THEN NamesVariables(built)
        ELSE BuiltFromVariables(built)

\* C16 amended: from_env, of either client, fails with the error naming the variables
\* when the app-id variable or the app-secret variable is not set or is set to the
\* empty string, building no client, and otherwise builds a client whose app id and
\* app secret are the variables' values.
C16_FromEnvFailsIffVariableMissingOrEmpty ==
    built # NoBuilt =>
        IF \E n \in {built.app_id_env, built.app_secret_env} :
                n \notin DOMAIN built.env \/ built.env[n] = ""
        THEN NamesVariables(built)
        ELSE BuiltFromVariables(built)

\* AsyncMessageApiClient.from_env with custom names failed while the app-id variable
\* was set to the empty string and the app-secret variable to a value
C16_Witness ==
    /\ built # NoBuilt
    /\ built.cls = "AsyncMessageApiClient"
    /\ built.app_id_env = "BOT_ID"
    /\ "BOT_ID" \in DOMAIN built.env /\ built.env["BOT_ID"] = ""
    /\ "BOT_SECRET" \in DOMAIN built.env /\ built.env["BOT_SECRET"] = "secret_a"
    /\ built.outcome.kind = "ValueError"

\* the classes of error the caller can tell apart: the HTTP library's errors of either
\* client are transport errors
ErrorClass(kind) ==
    IF kind \in {"HTTPError", "HTTPStatusError", "ConnectionError", "ConnectError"}
    THEN "TransportError" ELSE kind

SameOutcome(r1, r2) ==
    /\ ErrorClass(r1.kind) = ErrorClass(r2.kind)
    /\ r1.value = r2.value /\ r1.code = r2.code /\ r1.msg = r2.msg

\* both clients have finished the same operation on the same server responses
SameRun(c) ==
    /\ op[c] # NoOp /\ async_op = op[c]
    /\ pc[c] \in {"done", "failed"} /\ async_pc \in {"done", "failed"}
    /\ async_tokenResp = tokenResp[c] /\ async_messageResp = messageResp[c]

\* C11 as stated: whenever the synchronous and the asynchronous client have finished
\* the same operation (authorize, send, send_text, send_card, update) on the same
\* sequence of server responses, they issued the same outbound calls, hold the same
\* stored token and gave their callers the same result (same value or same error).
C11_SyncAndAsyncAgree ==
    \A c \in {"caller1"} :
        SameRun(c) =>
            /\ async_calls = calls[c]
            /\ async_token = tenant_access_token
            /\ (pc[c] = "done") = (async_pc = "done")
            /\ SameOutcome(result[c], async_result)


-----------------------------------------------------------------------------
(* Properties of concurrent units and concurrent operations *)

\* the steps of the background unit of request r and of its handler
UnitStep(r) == Process(r) \/ HandlerReturns(r) \/ \E exc \in Exceptions : HandlerRaises(r, exc)

\* C21: no order is enforced between the handlers of two dispatched events: a started
\* unit can always go on to call its handler and a running handler can always
\* return, whatever state the units of the other requests are in, and a step of one
\* unit leaves the other units as they are; each request's handler is nevertheless
\* invoked exactly once: never more than once, and a started unit whose event has a
\* handler registered eventually has one invocation.
C21_NoOrderBetweenHandlers ==
    /\ [](\A r \in Requests :
            /\ unit[r].state = "started" => ENABLED Process(r)
            /\ unit[r].state = "running" => ENABLED HandlerReturns(r)
            /\ Len(invocations[r]) <= 1
            /\ unit[r].state = "running" => Len(invocations[r]) = 1)
    /\ [][\A r \in Requests : UnitStep(r) =>
                \A q \in Requests \ {r} :
                    unit'[q] = unit[q] /\ invocations'[q] = invocations[q]]_vars
    /\ \A r \in Requests :
            [](  (unit[r].state = "started" /\ HandlerRegisteredFor(request[r]))
                => <>(Len(invocations[r]) = 1))

\* both requests were answered, the handler of the second request was invoked once
\* and has returned, and the unit of the first request has not yet called its handler
C21_Witness ==
    /\ AnsweredOk(1) /\ AnsweredOk(2)
    /\ unit[1].state = "started" /\ HandlerRegisteredFor(request[1])
    /\ invocations[1] = <<>>
    /\ unit[2].state = "finished" /\ Len(invocations[2]) = 1

\* a step of the token call of an operation that ends in an error: the call itself,
\* and the connection failure or the response that makes it fail
FailingTokenCallStep(c) ==
    \/ pc[c] # "token_wait" /\ pc'[c] = "token_wait"
    \/ pc[c] = "token_wait" /\ pc'[c] = "failed"

AsyncFailingTokenCallStep ==
    \/ async_pc # "token_wait" /\ async_pc' = "token_wait"
    \/ async_pc = "token_wait" /\ async_pc' = "failed"

\* C22: the stored token is the empty string after construction; the steps of a token
\* call that fails leave the stored token as it was, on either client; the stored
\* token changes only in the step in which a token response raises no error,
\* and then to the token of that response; app_id, app_secret and the host are
\* changed by no step.
C22_FailedAuthorizeKeepsToken ==
    /\ tenant_access_token = "" /\ async_token = ""
    /\ [][
            /\ \A c \in Callers :
                    FailingTokenCallStep(c) => tenant_access_token' = tenant_access_token
            /\ AsyncFailingTokenCallStep => async_token' = async_token
            /\ tenant_access_token' # tenant_access_token =>
                    \E c \in Callers :
                        /\ pc[c] = "token_wait" /\ pc'[c] \in {"done", "authorized"}
                        /\ check_error_response(tokenResp'[c]) = NoResult
                        /\ tenant_access_token' = ReturnedToken(tokenResp'[c])
            /\ async_token' # async_token =>
                    /\ async_pc = "token_wait" /\ async_pc' \in {"done", "authorized"}
                    /\ async_check_error_response(async_tokenResp') = NoResult
                    /\ async_token' = ReturnedToken(async_tokenResp')
            /\ lark_host' = lark_host /\ app_id' = app_id /\ app_secret' = app_secret
       ]_vars

\* on both clients an authorize() has failed with a LarkException after an earlier
\* token call had stored t1, and t1 is still the stored token
C22_Witness ==
    /\ op["caller1"].kind = "authorize" /\ pc["caller1"] = "failed"
    /\ result["caller1"].kind = "LarkException"
    /\ tenant_access_token = "t1"
    /\ async_op.kind = "authorize" /\ async_pc = "failed"
    /\ async_result.kind = "LarkException"
    /\ async_token = "t1"

\* the tokens returned by the token calls that have succeeded so far
TokensReturned ==
    {ReturnedToken(tokenResp[d]) :
        d \in {e \in Callers : tokenResp[e] # NoResp
                                /\ check_error_response(tokenResp[e]) = NoResult}}

\* a step in which caller c builds its headers and issues its message call
BuildsHeader(c) == pc[c] = "authorized" /\ pc'[c] = "message_wait"

\* C23: when two send / update operations run concurrently on one client, every
\* successful token call stores the token it returned and nothing else changes the
\* stored token; the message call an operation issues carries as bearer the token
\* stored on the client in the step that builds the header; the bearer of every
\* message call is a token returned by a successful token call of one of the two
\* operations and never the initial empty token.
C23_BearerIsStoredToken ==
    /\ [][
            /\ \A c \in Callers :
                    (pc[c] = "token_wait" /\ pc'[c] = "authorized") =>
                        tenant_access_token' = ReturnedToken(tokenResp'[c])
            /\ tenant_access_token' # tenant_access_token =>
                    \E c \in Callers : pc[c] = "token_wait" /\ pc'[c] = "authorized"
            /\ \A c \in Callers :
                    BuildsHeader(c) =>
                        /\ Len(calls'[c]) = 2
                        /\ calls'[c][2].bearer = tenant_access_token
       ]_vars
    /\ [](\A c \in Callers :
            /\ pc[c] = "authorized" => tenant_access_token \in TokensReturned
            /\ \A i \in 1..Len(calls[c]) :
                    calls[c][i].uri = MESSAGE_URI =>
                        /\ calls[c][i].bearer \in TokensReturned
                        /\ calls[c][i].bearer \notin {"", None})

\* a send and an update run concurrently: the token call of the send returned t1,
\* the token call of the update then returned t2, and the message call of the send
\* carries t2
C23_Witness ==
    \E c, d \in Callers :
        /\ op[c].kind = "send" /\ op[d].kind = "update"
        /\ ReturnedToken(tokenResp[c]) = "t1" /\ ReturnedToken(tokenResp[d]) = "t2"
        /\ pc[c] = "message_wait" /\ pc[d] = "authorized"
        /\ calls[c][2].bearer = "t2"

=============================================================================
